---- MODULE Spec2Model ----
(***************************************************************************)
(* Recursive-descent parser of test_files/our_parser.py (class Parser).   *)
(*                                                                         *)
(* The parser object is the state: the token list, the cursor (index and  *)
(* current_token) and the error list.  Every method of the class is an    *)
(* operator over a record of the mutable fields; an uncaught TypeError    *)
(* (subscripting current_token when it is None) is the field `raised`,    *)
(* after which nothing more of the call runs.  Each action is one call of *)
(* a public method on the parser object.                                  *)
(***************************************************************************)
EXTENDS Integers, Sequences, FiniteSets, TLC

VARIABLES tokens, index, current_token, errors, raised, pc, lastOp, result, parse_tree

vars == <<tokens, index, current_token, errors, raised, pc, lastOp, result, parse_tree>>

(***************************************************************************)
(* Bounds of the input families.                                           *)
(***************************************************************************)
MaxTokens == 3        \* arbitrary token lists over every token kind
MaxStmtTokens == 5    \* token lists over the kinds of a simple assignment
MaxExprTokens == 5    \* token lists over the kinds of an arithmetic expression
MaxStatements == 2    \* repetitions of IDENTIFIER '=' NUMBER NEWLINE
MaxBodyTokens == 5    \* tokens of a loop body after the loop header

(***************************************************************************)
(* Token kinds the parser tests for (match_token / expect_token callers). *)
(***************************************************************************)
TokenKinds ==
    {"IDENTIFIER", "NUMBER", "STRING_LITERAL", "ASSIGNMENT_OPERATOR",
     "ARITHMETIC_OPERATOR", "CONDITIONAL_KEYWORD", "LOOP_KEYWORD",
     "OPENING_PARENTHESIS", "CLOSING_PARENTHESIS", "COLON", "NEWLINE",
     "INDENT", "WHITESPACE", "LOGICAL_EXPRESSION"}

ExpectedKinds ==
    {"ASSIGNMENT_OPERATOR", "COLON", "CLOSING_PARENTHESIS", "NEWLINE", "INDENT"}

StmtKinds == {"IDENTIFIER", "ASSIGNMENT_OPERATOR", "NUMBER", "NEWLINE"}

ExprKinds ==
    {"IDENTIFIER", "NUMBER", "ARITHMETIC_OPERATOR",
     "OPENING_PARENTHESIS", "CLOSING_PARENTHESIS"}

(***************************************************************************)
(* A token is the pair (kind, lexeme) the scanner returns.  current_token *)
(* is None before the first consume_token and after the end of the input. *)
(* The lexeme of the i-th token is modelled as i, so that the value of a  *)
(* node tells which token it was built from.                              *)
(***************************************************************************)
NoToken == <<>>

SeqsUpTo(S, n) == UNION {[1..k -> S] : k \in 0..n}

Tokenize(kinds) == [i \in 1..Len(kinds) |-> <<kinds[i], i>>]

AssignmentLine == <<"IDENTIFIER", "ASSIGNMENT_OPERATOR", "NUMBER", "NEWLINE">>

LoopHeader == <<"LOOP_KEYWORD", "IDENTIFIER", "COLON", "NEWLINE", "INDENT">>

RECURSIVE Repeat(_, _)
Repeat(s, n) == IF n = 0 THEN <<>> ELSE s \o Repeat(s, n - 1)

InputKinds ==
    SeqsUpTo(TokenKinds, MaxTokens)
      \cup SeqsUpTo(StmtKinds, MaxStmtTokens)
      \cup SeqsUpTo(ExprKinds, MaxExprTokens)
      \cup {Repeat(AssignmentLine, n) : n \in 0..MaxStatements}
      \cup {LoopHeader \o b : b \in SeqsUpTo(StmtKinds, MaxBodyTokens)}

(***************************************************************************)
(* class Node                                                              *)
(***************************************************************************)
NoValue == 0

NoNode == [name |-> "None", value |-> NoValue, children |-> <<>>]

Node(name, value) == [name |-> name, value |-> value, children |-> <<>>]

add_child(node, child) == [node EXCEPT !.children = Append(@, child)]

(***************************************************************************)
(* The mutable fields of a Parser, threaded through the methods.          *)
(***************************************************************************)
Self == [index |-> index, current_token |-> current_token,
         errors |-> errors, raised |-> raised]

Ret(st, node) == [st |-> st, node |-> IF st.raised THEN NoNode ELSE node]

Raise(st) == [st EXCEPT !.raised = TRUE]

\* self.errors.append(f"... {self.current_token[0]}: {self.current_token[1]}"):
\* the f-string subscripts current_token, which raises when it is None.
AppendFound(st, msg, expected) ==
    IF st.raised THEN st
    ELSE IF st.current_token = NoToken THEN Raise(st)
    ELSE [st EXCEPT !.errors = Append(@, [msg |-> msg, expected |-> expected,
                                          found |-> st.current_token[1],
                                          lexeme |-> st.current_token[2]])]

\* self.errors.append(f"Invalid token {self.current_token[0]}")
AppendInvalid(st) ==
    IF st.raised THEN st
    ELSE IF st.current_token = NoToken THEN Raise(st)
    ELSE [st EXCEPT !.errors = Append(@, [msg |-> "Invalid token", expected |-> "",
                                          found |-> st.current_token[1],
                                          lexeme |-> NoValue])]

consume_token(st) ==
    IF st.raised THEN st
    ELSE IF st.index < Len(tokens)
         THEN [st EXCEPT !.current_token = tokens[st.index + 1],
                         !.index = st.index + 1]
         ELSE [st EXCEPT !.current_token = NoToken]

match_token(st, expected_token) ==
    st.current_token # NoToken /\ st.current_token[1] = expected_token

expect_token(st, expected_token) ==
    IF st.raised THEN st
    ELSE IF match_token(st, expected_token)
         THEN consume_token(st)
         ELSE AppendFound(st, "Expected", expected_token)

newline(st) == expect_token(st, "NEWLINE")

indent(st) == expect_token(st, "INDENT")

RECURSIVE skip_whitespace(_)
skip_whitespace(st) ==
    IF ~st.raised /\ match_token(st, "WHITESPACE")
    THEN skip_whitespace(consume_token(st))
    ELSE st

logical_expression(st) == NoNode

(***************************************************************************)
(* The grammar routines.  Each returns the parser fields after the call   *)
(* and the node returned (NoNode for None).  `if node:` is node # NoNode: *)
(* a Node object is always true.  A routine is split where it branches on *)
(* the result r of a call it made.                                         *)
(***************************************************************************)
RECURSIVE factor(_), term(_), term_loop(_, _), expression(_), expression_loop(_, _)
RECURSIVE statement(_), statement_list(_), statement_list_loop(_, _)
RECURSIVE assignment_statement(_), conditional_statement(_), loop_statement(_), block(_)

\* factor, lines 254-258: r is the result of expression()
factor_parenthesized(r) ==
    IF r.node # NoNode
    THEN Ret(consume_token(expect_token(r.st, "CLOSING_PARENTHESIS")), r.node)
    ELSE Ret(r.st, NoNode)

\* factor, lines 243-263: s1 is self after skip_whitespace()
factor_dispatch(s1) ==
    IF match_token(s1, "NUMBER")
    THEN Ret(consume_token(s1), Node("number", s1.current_token[2]))
    ELSE IF match_token(s1, "IDENTIFIER")
    THEN Ret(consume_token(s1), Node("identifier", s1.current_token[2]))
    ELSE IF match_token(s1, "STRING_LITERAL")
    THEN Ret(consume_token(s1), Node("string_literal", s1.current_token[2]))
    ELSE IF match_token(s1, "OPENING_PARENTHESIS")
    THEN factor_parenthesized(expression(consume_token(s1)))
    ELSE IF match_token(s1, "LOGICAL_EXPRESSION")
    THEN Ret(s1, logical_expression(s1))
    ELSE Ret(consume_token(AppendInvalid(s1)), NoNode)

factor(st) ==
    IF st.raised THEN Ret(st, NoNode)
    ELSE factor_dispatch(skip_whitespace(st))

\* term, lines 226-230: r is the result of factor() inside the loop
term_operand(r, term_node, arithmetic_operator_node) ==
    IF r.st.raised THEN Ret(r.st, NoNode)
    ELSE IF r.node # NoNode
    THEN term_loop(r.st, add_child(add_child(term_node, arithmetic_operator_node), r.node))
    ELSE term_loop(AppendFound(r.st, "Expected a factor", ""), term_node)

\* term, lines 222-230
term_loop(st, term_node) ==
    IF ~st.raised /\ match_token(st, "ARITHMETIC_OPERATOR")
    THEN term_operand(factor(consume_token(st)), term_node,
                      Node("arithmetic_operator", st.current_token[2]))
    ELSE Ret(st, term_node)

\* term, lines 220-233: r is the result of the first factor()
term_first(r) ==
    IF r.st.raised THEN Ret(r.st, NoNode)
    ELSE IF r.node # NoNode
    THEN term_loop(r.st, add_child(Node("term", NoValue), r.node))
    ELSE Ret(AppendFound(r.st, "Expected a factor", ""), Node("term", NoValue))

term(st) ==
    IF st.raised THEN Ret(st, NoNode)
    ELSE term_first(factor(skip_whitespace(st)))

\* expression, lines 202-206: r is the result of term() inside the loop
expression_operand(r, expression_node, arithmetic_operator_node) ==
    IF r.st.raised THEN Ret(r.st, NoNode)
    ELSE IF r.node # NoNode
    THEN expression_loop(r.st, add_child(add_child(expression_node,
                                   arithmetic_operator_node), r.node))
    ELSE expression_loop(AppendFound(r.st, "Expected a term", ""), expression_node)

\* expression, lines 198-206
expression_loop(st, expression_node) ==
    IF ~st.raised /\ match_token(st, "ARITHMETIC_OPERATOR")
    THEN expression_operand(term(consume_token(st)), expression_node,
                            Node("arithmetic_operator", st.current_token[2]))
    ELSE Ret(st, expression_node)

\* expression, lines 195-209: r is the result of the first term()
expression_first(r) ==
    IF r.st.raised THEN Ret(r.st, NoNode)
    ELSE IF r.node # NoNode
    THEN expression_loop(r.st, add_child(Node("expression", NoValue), r.node))
    ELSE Ret(AppendFound(r.st, "Expected a term", ""), NoNode)

expression(st) ==
    IF st.raised THEN Ret(st, NoNode)
    ELSE expression_first(term(skip_whitespace(st)))

\* assignment_statement, lines 112-118: r is the result of expression()
assignment_build(r, identifier_node, assignment_operator_node) ==
    IF r.st.raised THEN Ret(r.st, NoNode)
    ELSE IF r.node # NoNode
    THEN Ret(r.st, add_child(add_child(add_child(Node("assignment_statement", NoValue),
                     identifier_node), assignment_operator_node), r.node))
    ELSE Ret(AppendFound(r.st, "Expected an expression", ""), NoNode)

\* assignment_statement, lines 108-118: s1 is self after expect_token();
\* line 108 subscripts current_token
assignment_operator(s1, identifier_node) ==
    IF s1.raised THEN Ret(s1, NoNode)
    ELSE IF s1.current_token = NoToken THEN Ret(Raise(s1), NoNode)
    ELSE assignment_build(expression(skip_whitespace(consume_token(s1))),
                          identifier_node,
                          Node("assignment_operator", s1.current_token[2]))

assignment_statement(st) ==
    IF st.raised THEN Ret(st, NoNode)
    ELSE IF match_token(st, "IDENTIFIER")
    THEN assignment_operator(
             expect_token(skip_whitespace(consume_token(st)), "ASSIGNMENT_OPERATOR"),
             Node("identifier", st.current_token[2]))
    ELSE Ret(AppendFound(st, "Expected an identifier", ""), NoNode)

\* block, lines 181-183: r is the result of statement_list()
block_build(r) ==
    IF r.st.raised THEN Ret(r.st, NoNode)
    ELSE IF r.node # NoNode
    THEN Ret(r.st, add_child(Node("block", NoValue), r.node))
    ELSE Ret(r.st, Node("block", NoValue))

block(st) ==
    IF st.raised THEN Ret(st, NoNode)
    ELSE block_build(statement_list(indent(st)))

\* conditional_statement, lines 143-144: e is the result of the second block()
conditional_else(e, conditional_node) ==
    IF e.st.raised THEN Ret(e.st, NoNode)
    ELSE IF e.node # NoNode
    THEN Ret(e.st, add_child(conditional_node, e.node))
    ELSE Ret(e.st, conditional_node)

\* conditional_statement, lines 138-144: b is the result of the first block()
conditional_block(b, conditional_node) ==
    IF b.st.raised THEN Ret(b.st, NoNode)
    ELSE IF b.node # NoNode
    THEN IF match_token(b.st, "CONDITIONAL_KEYWORD")
         THEN conditional_else(block(consume_token(b.st)),
                               add_child(conditional_node, b.node))
         ELSE Ret(b.st, add_child(conditional_node, b.node))
    ELSE Ret(b.st, conditional_node)

\* conditional_statement, lines 134-145: s2 is self after the keyword
conditional_condition(s2, conditional_node, logical_expression_node) ==
    IF logical_expression_node # NoNode
    THEN conditional_block(block(s2), add_child(conditional_node, logical_expression_node))
    ELSE Ret(s2, conditional_node)

\* conditional_statement, lines 131-145: s1 is self after skip_whitespace()
conditional_keyword(s1) ==
    IF match_token(s1, "CONDITIONAL_KEYWORD")
    THEN conditional_condition(consume_token(s1),
                               Node("conditional_statement", s1.current_token[2]),
                               logical_expression(consume_token(s1)))
    ELSE Ret(s1, NoNode)

conditional_statement(st) ==
    IF st.raised THEN Ret(st, NoNode)
    ELSE conditional_keyword(skip_whitespace(st))

\* loop_statement, lines 165-167: r is the result of statement_list()
loop_body(r, loop_node) ==
    IF r.st.raised THEN Ret(r.st, NoNode)
    ELSE IF r.node # NoNode
    THEN Ret(r.st, add_child(loop_node, r.node))
    ELSE Ret(r.st, loop_node)

\* loop_statement, lines 158-169: s2 is self after the keyword
loop_identifier(s2, loop_node) ==
    IF match_token(s2, "IDENTIFIER")
    THEN loop_body(statement_list(indent(newline(expect_token(consume_token(s2), "COLON")))),
                   add_child(loop_node, Node("identifier", s2.current_token[2])))
    ELSE Ret(AppendFound(s2, "Expected an identifier", ""), loop_node)

\* loop_statement, lines 155-170: s1 is self after skip_whitespace()
loop_keyword(s1) ==
    IF match_token(s1, "LOOP_KEYWORD")
    THEN loop_identifier(consume_token(s1), Node("loop_statement", s1.current_token[2]))
    ELSE Ret(s1, NoNode)

loop_statement(st) ==
    IF st.raised THEN Ret(st, NoNode)
    ELSE loop_keyword(skip_whitespace(st))

\* statement, lines 87-88: r is the result of the branch taken
statement_newline(r) == Ret(newline(r.st), r.node)

statement(st) ==
    IF st.raised THEN Ret(st, NoNode)
    ELSE statement_newline(
             IF match_token(st, "IDENTIFIER") THEN assignment_statement(st)
             ELSE IF match_token(st, "CONDITIONAL_KEYWORD") THEN conditional_statement(st)
             ELSE IF match_token(st, "LOOP_KEYWORD") THEN loop_statement(st)
             ELSE Ret(consume_token(AppendFound(st, "Expected a statement type", "")),
                      NoNode))

\* statement_list, lines 65-68: r is the result of statement()
statement_list_add(r, statement_list_node) ==
    IF r.st.raised THEN Ret(r.st, NoNode)
    ELSE IF r.node # NoNode
    THEN statement_list_loop(r.st, add_child(statement_list_node, r.node))
    ELSE Ret(r.st, statement_list_node)

\* statement_list, lines 63-68
statement_list_loop(st, statement_list_node) ==
    IF ~st.raised /\ st.current_token # NoToken
    THEN statement_list_add(statement(st), statement_list_node)
    ELSE Ret(st, statement_list_node)

statement_list(st) == statement_list_loop(st, Node("statement_list", NoValue))

\* self.errors.append(f"Expected a statement_list, found
\*   {self.current_token[0] if self.current_token else 'end of input'}")
AppendNoStatementList(st) ==
    [st EXCEPT !.errors = Append(@, [msg |-> "Expected a statement_list", expected |-> "",
                  found |-> IF st.current_token # NoToken THEN st.current_token[1]
                            ELSE "end of input",
                  lexeme |-> NoValue])]

\* program, lines 50-54: r is the result of statement_list()
program_build(r) ==
    IF r.st.raised THEN Ret(r.st, NoNode)
    ELSE IF r.node # NoNode
    THEN Ret(r.st, add_child(Node("program", NoValue), r.node))
    ELSE Ret(AppendNoStatementList(r.st), Node("program", NoValue))

program(st) == program_build(statement_list(st))

parse_return_always_tree(st, tree) == tree

\* the value parse() returns, given the tree program() built
parse_return(st, tree) == IF st.errors = <<>> THEN tree ELSE NoNode

\* parse, lines 28-31: r is the result of program()
parse_result(r) ==
    [st |-> r.st,
     node |-> IF r.st.raised THEN NoNode ELSE parse_return(r.st, r.node),
     parse_tree |-> r.node]

parse(st) == parse_result(program(consume_token(st)))

(***************************************************************************)
(* State machine: a Parser is constructed on a token list (pc = "new");   *)
(* then either parse() is called, or the cursor is moved with             *)
(* consume_token() and one grammar routine is called at that cursor.      *)
(***************************************************************************)
Init ==
    /\ \E kinds \in InputKinds : tokens = Tokenize(kinds)
    /\ index = 0
    /\ current_token = NoToken
    /\ errors = <<>>
    /\ raised = FALSE
    /\ pc = "new"
    /\ lastOp = "__init__"
    /\ result = NoNode
    /\ parse_tree = NoNode

SetSelf(st) ==
    /\ index' = st.index
    /\ current_token' = st.current_token
    /\ errors' = st.errors
    /\ raised' = st.raised

Call(name, r) ==
    /\ pc = "ready"
    /\ SetSelf(r.st)
    /\ result' = r.node
    /\ lastOp' = name
    /\ pc' = "done"
    /\ UNCHANGED <<tokens, parse_tree>>

ParseOutcome(p) ==
    /\ SetSelf(p.st)
    /\ result' = p.node
    /\ parse_tree' = p.parse_tree

Parse ==
    /\ pc = "new"
    /\ ParseOutcome(parse(Self))
    /\ lastOp' = "parse"
    /\ pc' = "done"
    /\ UNCHANGED tokens

ConsumeToken ==
    /\ pc \in {"new", "ready"}
    /\ SetSelf(consume_token(Self))
    /\ lastOp' = "consume_token"
    /\ pc' = "ready"
    /\ UNCHANGED <<tokens, result, parse_tree>>

ExpectToken ==
    \E expected_token \in ExpectedKinds :
        Call("expect_token", Ret(expect_token(Self, expected_token), NoNode))

Factor == Call("factor", factor(Self))

Expression == Call("expression", expression(Self))

Statement == Call("statement", statement(Self))

StatementList == Call("statement_list", statement_list(Self))

ConditionalStatement == Call("conditional_statement", conditional_statement(Self))

Next ==
    \/ Parse
    \/ ConsumeToken
    \/ ExpectToken
    \/ Factor
    \/ Expression
    \/ Statement
    \/ StatementList
    \/ ConditionalStatement

Spec == Init /\ [][Next]_vars

(***************************************************************************)
(* Helpers of the properties.                                              *)
(***************************************************************************)
Kinds(toks) == [i \in 1..Len(toks) |-> toks[i][1]]

ChildNames(node) == [i \in 1..Len(node.children) |-> node.children[i].name]

ChildValues(node) == [i \in 1..Len(node.children) |-> node.children[i].value]

RECURSIVE HasNode(_, _)
HasNode(node, name) ==
    \/ node.name = name
    \/ \E i \in 1..Len(node.children) : HasNode(node.children[i], name)

Fresh == [index |-> 0, current_token |-> NoToken, errors |-> <<>>, raised |-> FALSE]

\* the parser fields after n calls of consume_token() on a new parser
RECURSIVE Cursor(_)
Cursor(n) == IF n = 0 THEN Fresh ELSE consume_token(Cursor(n - 1))

\* the parser fields after k successive calls of statement()
RECURSIVE AfterStatements(_, _)
AfterStatements(st, k) ==
    IF k = 0 THEN st ELSE AfterStatements(statement(st).st, k - 1)

\* every statement from st to the end of the input parses to a node
\* without a diagnostic
RECURSIVE CleanStatements(_)
CleanStatement(st, r) ==
    /\ ~r.st.raised
    /\ r.st.errors = st.errors
    /\ r.node # NoNode
    /\ CleanStatements(r.st)

CleanStatements(st) ==
    \/ st.current_token = NoToken
    \/ CleanStatement(st, statement(st))

ParseDone == pc = "done" /\ lastOp = "parse"

IsOperand(k) == k \in {"NUMBER", "IDENTIFIER"}

(***************************************************************************)
(* C1: when parse() returns, it returns the program tree exactly when the *)
(* error list is empty, and None whenever a diagnostic was appended; a    *)
(* tree is never returned together with a non-empty error list.           *)
(***************************************************************************)
C1_BinaryOutcome ==
    (ParseDone /\ ~raised) =>
        /\ (result # NoNode) <=> (errors = <<>>)
        /\ errors = <<>> => (result = parse_tree /\ result.name = "program")
        /\ errors # <<>> => result = NoNode

\* a parse that built a tree, logged diagnostics and returned None
C1_Witness ==
    /\ ParseDone /\ ~raised
    /\ errors # <<>>
    /\ parse_tree.name = "program"
    /\ result = NoNode

(***************************************************************************)
(* C2: on IDENTIFIER '=' NUMBER NEWLINE repeated n times parse() returns  *)
(* a program with one statement_list child that has exactly n             *)
(* assignment_statement children (identifier, assignment_operator,        *)
(* expression), and the error list is empty.                               *)
(***************************************************************************)
C2_RepeatedAssignments ==
    (ParseDone /\ Len(tokens) % 4 = 0
        /\ Kinds(tokens) = Repeat(AssignmentLine, Len(tokens) \div 4)) =>
        /\ ~raised
        /\ errors = <<>>
        /\ result.name = "program"
        /\ ChildNames(result) = <<"statement_list">>
        /\ Len(result.children[1].children) = Len(tokens) \div 4
        /\ \A i \in 1..Len(result.children[1].children) :
              /\ result.children[1].children[i].name = "assignment_statement"
              /\ ChildNames(result.children[1].children[i])
                    = <<"identifier", "assignment_operator", "expression">>

(***************************************************************************)
(* C3: parse() terminates normally on every token list: it reaches its    *)
(* return and no grammar routine aborts with an unhandled exception, end  *)
(* of input included.                                                      *)
(***************************************************************************)
C3_ParseTerminatesNormally ==
    lastOp = "parse" => (pc = "done" /\ ~raised)

(***************************************************************************)
(* C4: expect_token(kind) never raises; on a match the cursor advances by *)
(* one token and the error list is unchanged; otherwise exactly one       *)
(* diagnostic is appended and the cursor is unchanged.                     *)
(***************************************************************************)
C4_ExpectTokenContract ==
    [][lastOp' = "expect_token" =>
        /\ ~raised'
        /\ \E k \in ExpectedKinds :
            IF match_token(Self, k)
            THEN /\ errors' = errors
                 /\ index' = consume_token(Self).index
                 /\ current_token' = consume_token(Self).current_token
            ELSE /\ Len(errors') = Len(errors) + 1
                 /\ SubSeq(errors', 1, Len(errors)) = errors
                 /\ errors'[Len(errors')].expected = k
                 /\ index' = index
                 /\ current_token' = current_token]_vars

(***************************************************************************)
(* C5: when the first token is not IDENTIFIER, CONDITIONAL_KEYWORD or     *)
(* LOOP_KEYWORD, parsing completes with exactly one 'Expected a statement *)
(* type' diagnostic and a top-level statement_list without children.      *)
(***************************************************************************)
C5_BadFirstToken ==
    (ParseDone /\ tokens # <<>>
        /\ tokens[1][1] \notin {"IDENTIFIER", "CONDITIONAL_KEYWORD", "LOOP_KEYWORD"}) =>
        /\ ~raised
        /\ Cardinality({i \in 1..Len(errors) :
                            errors[i].msg = "Expected a statement type"}) = 1
        /\ ChildNames(parse_tree) = <<"statement_list">>
        /\ parse_tree.children[1].children = <<>>

(***************************************************************************)
(* C6: expression() on F1 OP1 F2 OP2 F3 returns an expression with the    *)
(* three children (term, arithmetic_operator, term): the left term holds  *)
(* F1, the operator is OP1 and the right term holds (F2, OP2, F3).        *)
(***************************************************************************)
C6_ExpressionShape ==
    [][(lastOp' = "expression" /\ index = 1 /\ Len(tokens) = 5
          /\ IsOperand(tokens[1][1]) /\ tokens[2][1] = "ARITHMETIC_OPERATOR"
          /\ IsOperand(tokens[3][1]) /\ tokens[4][1] = "ARITHMETIC_OPERATOR"
          /\ IsOperand(tokens[5][1])) =>
        /\ ~raised'
        /\ result'.name = "expression"
        /\ ChildNames(result') = <<"term", "arithmetic_operator", "term">>
        /\ ChildValues(result'.children[1]) = <<1>>
        /\ result'.children[2].value = 2
        /\ ChildValues(result'.children[3]) = <<3, 4, 5>>]_vars

\* the inner expression of a parenthesized factor parsed to a node without a
\* diagnostic
WellFormedInner(inner, errors_before) ==
    ~inner.st.raised /\ inner.node # NoNode /\ inner.st.errors = errors_before

\* what C7 says of the parser fields `after` and the node returned by factor(),
\* given the result `inner` of the inner expression
C7_Expected(inner, after, node) ==
    IF match_token(inner.st, "CLOSING_PARENTHESIS")
    THEN /\ ~after.raised
         /\ node = inner.node
         /\ after.errors = inner.st.errors
         /\ after.index = consume_token(inner.st).index
         /\ after.current_token = consume_token(inner.st).current_token
    ELSE /\ ~after.raised
         /\ node = inner.node
         /\ Len(after.errors) = Len(inner.st.errors) + 1
         /\ after.errors[Len(after.errors)].expected = "CLOSING_PARENTHESIS"
         /\ after.index = inner.st.index
         /\ after.current_token = inner.st.current_token

(***************************************************************************)
(* C7: factor() on '(' and a well-formed expression: with ')' it returns  *)
(* the inner expression node, logs nothing and leaves the token after ')' *)
(* current; without ')' it logs the missing CLOSING_PARENTHESIS, does not *)
(* consume the token found and still returns the inner expression node.   *)
(***************************************************************************)
C7_ParenthesizedFactor ==
    [][(lastOp' = "factor" /\ match_token(Self, "OPENING_PARENTHESIS")
          /\ WellFormedInner(expression(consume_token(Self)), errors)) =>
        C7_Expected(expression(consume_token(Self)), Self', result')]_vars

(***************************************************************************)
(* C8: conditional_statement never produces a conditional_statement node: *)
(* on CONDITIONAL_KEYWORD it returns None and appends no diagnostic, and  *)
(* no conditional_statement node appears in a statement_list or a         *)
(* returned tree.                                                          *)
(***************************************************************************)
C8_NoConditionalNode ==
    [][/\ (lastOp' = "conditional_statement" /\ match_token(Self, "CONDITIONAL_KEYWORD")) =>
            (~raised' /\ result' = NoNode /\ errors' = errors)
       /\ (lastOp' \in {"parse", "statement_list", "statement"} /\ ~raised') =>
            ~HasNode(result', "conditional_statement")]_vars

(***************************************************************************)
(* C9: a statement during which a diagnostic is appended yields None, and *)
(* statement_list stops there: every child of a statement_list was parsed *)
(* without a diagnostic.                                                   *)
(***************************************************************************)
C9_StopsAtFirstBadStatement ==
    [][/\ (lastOp' = "statement" /\ ~raised' /\ errors' # errors) => result' = NoNode
       /\ (lastOp' = "statement_list" /\ ~raised') =>
            AfterStatements(Self, Len(result'.children)).errors = errors]_vars

(***************************************************************************)
(* C10: LOOP_KEYWORD IDENTIFIER COLON NEWLINE INDENT followed by a body   *)
(* of statements that each parse without a diagnostic is accepted:        *)
(* parse() returns a tree whose statement_list holds a loop_statement     *)
(* with the identifier and the nested statement_list of the body, and the *)
(* error list is empty.                                                    *)
(***************************************************************************)
C10_LoopAccepted ==
    (ParseDone /\ Len(tokens) >= 5 /\ SubSeq(Kinds(tokens), 1, 5) = LoopHeader
        /\ CleanStatements(Cursor(6))) =>
        /\ ~raised
        /\ errors = <<>>
        /\ result.name = "program"
        /\ ChildNames(result) = <<"statement_list">>
        /\ Len(result.children[1].children) >= 1
        /\ LET loop == result.children[1].children[1] IN
             /\ loop.name = "loop_statement"
             /\ ChildNames(loop) = <<"identifier", "statement_list">>
             /\ loop.children[1].value = 2
             /\ loop.children[2] = statement_list(Cursor(6)).node

====
